---- MODULE Spec2Model ----
(***************************************************************************)
(* A model of the news-analyzer pipeline: main() of main.py, the archive   *)
(* of database.py (DatabaseManager) and the scoring step of                *)
(* ai_processing.py (ai_rank_and_classify_articles).                       *)
(*                                                                         *)
(* A DataFrame is a sequence of rows, a row a record.  The SQLite table is *)
(* a set of rows.  Time is counted in whole days: now is the day of the    *)
(* running process, insert_timestamp the day of the insertion, and a       *)
(* publish_time a string that dateutil parses to a local calendar day, or  *)
(* fails to parse.                                                         *)
(***************************************************************************)
EXTENDS Integers, Sequences, FiniteSets, TLC

\* ------------------------------------------------------------------ bounds
MaxArticles == 2    \* articles the adapters return in one run, all sites together
MaxDay == 2         \* last day the clock reaches
MaxScore == 1       \* highest score the Scoring Service answers
MaxBatch == 3       \* rows of a batch handed to one stage on its own
MaxCandidates == 2  \* rows of a candidate frame handed to the quota selection on its own
MaxDup == 4         \* rows of a batch handed to the frequency bonus on its own
MaxQuota == 2       \* largest category quota of the configuration
MaxLimit == 3       \* largest selection_total_limit of the configuration

\* --------------------------------------------------------------- data sets
Urls == {"u1", "u2"}
Titles == {"t1", "t2"}
Sites == <<"s1", "s2">>          \* SITES_CONFIG, in configuration order
SiteNames == {Sites[i] : i \in 1..Len(Sites)}
PubTimes == {"1969-12-31", "1970-01-01"}   \* publish_time strings of day -1 and day 0
Unknown == "unknown"             \* the category sentinel of ai_processing.py
Categories == {"tech", "intl"}   \* categories the Scoring Service answers
Scores == 1..MaxScore
NaN == 0 - 1000                  \* a score of null: NaN in the score column
NotNumber == 0 - 2000            \* a score that is a str
None == "None"

\* Texts, by what the code asks of them, their length: a description is
\* empty, shorter than 50 characters, of 50 to 200 characters or longer;
\* FallbackText is the fallback string of main(), FetchedText a text
\* fetch_full_content_from_url extracted, Summary an answer of the
\* Summarization Service and TruncatedText the first 200 characters of
\* VeryLongText followed by "...".
ShortText == "short text"
LongText == "long text"
VeryLongText == "very long text"
FallbackText == "content lost"
FetchedText == "fetched text"
Summary == "summary"
TruncatedText == "very long t..."
Texts == {"", ShortText, LongText, VeryLongText}
TextLen(c) ==
    CASE c = "" -> 0
      [] c = FallbackText -> 6
      [] c = ShortText -> 10
      [] c = Summary -> 40
      [] c = LongText -> 120
      [] c = FetchedText -> 150
      [] c = TruncatedText -> 203
      [] OTHER -> 400

\* A row as the source adapters produce it in a whole run: published on day
\* 0, with a description long enough to be summarized.
Articles ==
    [url : Urls, title : Titles, source : SiteNames, publish_time : {"1970-01-01"},
     description : {LongText}]

\* ------------------------------------------------------- sequence helpers
Min(a, b) == IF a < b THEN a ELSE b

Range(s) == {s[i] : i \in 1..Len(s)}

SeqsUpTo(S, n) == UNION {[1..k -> S] : k \in 0..n}

\* df[mask]: the rows of s where the boolean series mask is true, in order.
MaskSeq(s, mask) ==
    LET F[i \in 0..Len(s)] ==
            IF i = 0 THEN <<>>
            ELSE IF mask[i] THEN Append(F[i - 1], s[i]) ELSE F[i - 1]
    IN F[Len(s)]

\* pd.concat of a list of frames.
Concat(frames) ==
    LET F[i \in 0..Len(frames)] == IF i = 0 THEN <<>> ELSE F[i - 1] \o frames[i]
    IN F[Len(frames)]

ColumnUrls(df) == {df[i].url : i \in 1..Len(df)}

\* What the adapters can return in a run: rows grouped by site, in
\* configuration order of the sites.
SiteIndex(name) == CHOOSE i \in 1..Len(Sites) : Sites[i] = name
Feeds ==
    {f \in SeqsUpTo(Articles, MaxArticles) :
        \A i \in 1..Len(f) : \A j \in 1..Len(f) :
            i < j => SiteIndex(f[i].source) <= SiteIndex(f[j].source)}

\* --------------------------------------------------------- database.py
\* One row of the table of _connect_and_init: url is the PRIMARY KEY.
ArchiveRow(a, ts) ==
    [url |-> a.url, title |-> a.title, source |-> a.source,
     publish_time |-> a.publish_time, description |-> a.description,
     insert_timestamp |-> ts]

StoredUrls(table) == {r.url : r \in table}

\* get_existing_urls keeping the urls read before the exception: one stored
\* url comes back.
get_existing_urls_partial(table, raises) ==
    IF raises
    THEN IF table = {} THEN {} ELSE {CHOOSE u \in StoredUrls(table) : TRUE}
    ELSE StoredUrls(table)

\* DatabaseManager.get_existing_urls: SELECT url; any exception gives set().
get_existing_urls(table, raises) ==
    IF raises THEN {} ELSE StoredUrls(table)

\* The INSERT of one to_sql batch hits the PRIMARY KEY: a url of the batch is
\* stored already, or occurs twice in the batch.
PrimaryKeyViolation(table, df) ==
    \/ \E i \in 1..Len(df) : df[i].url \in StoredUrls(table)
    \/ \E i \in 1..Len(df) : \E j \in 1..Len(df) : i # j /\ df[i].url = df[j].url

\* Whether write_new_articles stores the batch: to_sql runs one transaction,
\* rolled back as a whole when an INSERT raises, and the except clause of
\* write_new_articles swallows the exception.
WriteSucceeds(table, df, raises) ==
    df # <<>> /\ ~raises /\ ~PrimaryKeyViolation(table, df)

\* write_new_articles with if_exists='replace' for 'append': the batch takes
\* the place of the table.
write_new_articles_replace(table, df, ts, raises) ==
    IF df # <<>> /\ ~raises
    THEN {ArchiveRow(df[i], ts) : i \in 1..Len(df)}
    ELSE table

\* write_new_articles with one INSERT and one commit per row: the first row
\* is stored before an INSERT raises.
write_new_articles_row_by_row(table, df, ts, raises) ==
    IF WriteSucceeds(table, df, raises)
    THEN table \cup {ArchiveRow(df[i], ts) : i \in 1..Len(df)}
    ELSE IF df # <<>> /\ df[1].url \notin StoredUrls(table)
         THEN table \cup {ArchiveRow(df[1], ts)}
         ELSE table

\* write_new_articles storing df.head(1) for df.
write_new_articles_head(table, df, ts, raises) ==
    IF WriteSucceeds(table, df, raises)
    THEN table \cup {ArchiveRow(df[1], ts)}
    ELSE table

\* DatabaseManager.write_new_articles: the table after the call.
write_new_articles(table, df, ts, raises) ==
    IF WriteSucceeds(table, df, raises)
    THEN table \cup {ArchiveRow(df[i], ts) : i \in 1..Len(df)}
    ELSE table

\* cutoff_timestamp of clean_old_articles.
CutoffTimestamp(today, days_to_keep) == today - days_to_keep

\* The DELETE with <= for <.
clean_old_articles_inclusive(table, days_to_keep, today) ==
    IF ~(days_to_keep > 0) THEN table
    ELSE {r \in table : ~(r.insert_timestamp <= CutoffTimestamp(today, days_to_keep))}

\* DatabaseManager.clean_old_articles: the table after the call.
clean_old_articles(table, days_to_keep, today) ==
    IF ~(days_to_keep > 0) THEN table
    ELSE {r \in table : ~(r.insert_timestamp < CutoffTimestamp(today, days_to_keep))}

\* config['data_retention']: enabled (default False) and days_to_keep.
RetentionConfigs ==
    {[enabled |-> e, days_to_keep |-> d] : e \in BOOLEAN, d \in (0 - 1)..MaxDay}

\* The retention block of main(): clean_old_articles when enabled.
RetentionStep(table, retention, today) ==
    IF retention.enabled
    THEN clean_old_articles(table, retention.days_to_keep, today)
    ELSE table

\* ------------------------------------------------- main.py: ingestion
\* What can happen in parse_single_source: parser.parse() returns a frame,
\* site_config has no parser_class, parsers has no such BaseParser subclass,
\* an exception is raised, or parser.parse() never returns.
AdapterOutcomes == {"ok", "no_parser_class", "unknown_parser_class", "raises", "hangs"}

\* parse_single_source with the guards and the except clause lost: the rows
\* of the site come back whatever happened.
parse_single_source_unguarded(f, site, outcome) ==
    MaskSeq(f, [i \in 1..Len(f) |-> f[i].source = site])

\* parse_single_source for one site, when it returns: the rows the site's
\* adapter returns, or pd.DataFrame() from a guard or the except clause.
parse_single_source(f, site, outcome) ==
    IF outcome = "ok" THEN MaskSeq(f, [i \in 1..Len(f) |-> f[i].source = site])
    ELSE <<>>

\* The incremental filter with the negation of the mask lost.
IncrementalFilterNotNegated(df, existing) ==
    MaskSeq(df, [i \in 1..Len(df) |-> df[i].url \in existing])

\* raw_combined_df[~raw_combined_df['url'].isin(existing_urls)]
IncrementalFilter(df, existing) == MaskSeq(df, [i \in 1..Len(df) |-> df[i].url \notin existing])

\* publish_time values an adapter can also hand over: nothing, an object that
\* is not a str, a string dateutil cannot parse, and a string whose year
\* does not fit a C integer.
NotAString == "NaT"
OddPubTimes == {"", NotAString, "garbled", "08335394550"}

\* dateutil_parse(publish_time).astimezone().date(), in days.
LocalDate(p) ==
    CASE p = "1969-12-31" -> 0 - 1
      [] p = "1970-01-01" -> 0
      [] p = "1970-01-02" -> 1
      [] OTHER -> 0 - 2

\* One turn of the date filter loop on publish_time p: "skipped" by the test
\* of line 219, "parsed", or the exception dateutil_parse raises.
DateOutcome(p) ==
    IF p = "" \/ p = NotAString THEN "skipped"
    ELSE IF p = "garbled" THEN "ValueError"
    ELSE IF p = "08335394550" THEN "OverflowError"
    ELSE "parsed"

\* The except clause of the loop catches TypeError, ValueError and
\* AttributeError; any other exception leaves main().
DateFilterRaises(df) ==
    \E i \in 1..Len(df) :
        DateOutcome(df[i].publish_time) \notin {"skipped", "parsed", "TypeError", "ValueError", "AttributeError"}

\* The date filter loop: rows whose publish_time falls on today_local_date.
SameDayFilter(df, today) ==
    MaskSeq(df, [i \in 1..Len(df) |->
        /\ DateOutcome(df[i].publish_time) = "parsed"
        /\ LocalDate(df[i].publish_time) = today])

\* drop_duplicates with keep='last' for keep='first'.
DropDuplicateTitlesKeepLast(df) ==
    MaskSeq(df, [i \in 1..Len(df) |->
        \A j \in (i + 1)..Len(df) : df[j].title # df[i].title])

\* drop_duplicates(subset=['title'], keep='first')
DropDuplicateTitles(df) ==
    MaskSeq(df, [i \in 1..Len(df) |-> \A j \in 1..(i - 1) : df[j].title # df[i].title])

\* ------------------------------------------- ai_processing.py: scoring
\* A parsed response of the Scoring Service: title -> score and category,
\* for any set of titles (titles of the batch may be missing).
ScoreEntries == [score : Scores, category : Categories]
ResultMaps == UNION {[ts -> ScoreEntries] : ts \in SUBSET Titles}

\* What generate_content + json.loads give: an exception, or a result map.
Responses ==
    {[raises |-> TRUE, result_map |-> <<>>]} \cup
    {[raises |-> FALSE, result_map |-> m] : m \in ResultMaps}

\* The answers of a service that does not keep to the prompt: a score may be
\* null or a str, and a title may be none of the batch.
AnyScoreEntries == [score : Scores \cup {NaN, NotNumber}, category : Categories]
AnyResponses ==
    {[raises |-> TRUE, result_map |-> <<>>]} \cup
    {[raises |-> FALSE, result_map |-> m] :
        m \in UNION {[ts -> AnyScoreEntries] : ts \in SUBSET (Titles \cup {"t3"})}}

\* The Scoring Service of a run: one that keeps to the prompt and may give
\* any answer of Responses, or one that gives the answer it is made of.
PromptService == [kind |-> "prompt"]
FixedService(response) == [kind |-> "fixed", response |-> response]
ServiceAnswers(s) == IF s.kind = "prompt" THEN Responses ELSE {s.response}

ScoredRow(a, score, cat) ==
    [url |-> a.url, title |-> a.title, source |-> a.source,
     publish_time |-> a.publish_time, description |-> a.description,
     importance_score |-> score, category |-> cat]

\* The mapping back as an inner join: rows whose title the response omits
\* are dropped.
ai_rank_and_classify_articles_inner_join(df, response) ==
    IF response.raises THEN [i \in 1..Len(df) |-> ScoredRow(df[i], 0, Unknown)]
    ELSE LET kept == MaskSeq(df, [i \in 1..Len(df) |->
                         df[i].title \in DOMAIN response.result_map])
         IN [i \in 1..Len(kept) |->
                ScoredRow(kept[i], response.result_map[kept[i].title].score,
                          response.result_map[kept[i].title].category)]

\* ai_rank_and_classify_articles on a non-empty frame.
ai_rank_and_classify_articles(df, response) ==
    [i \in 1..Len(df) |->
        IF response.raises THEN ScoredRow(df[i], 0, Unknown)
        ELSE IF df[i].title \in DOMAIN response.result_map
             THEN ScoredRow(df[i], response.result_map[df[i].title].score,
                            response.result_map[df[i].title].category)
             ELSE ScoredRow(df[i], 0, Unknown)]

\* classified_df['category'].eq(Unknown).all()
AllUnknown(df) == \A i \in 1..Len(df) : df[i].category = Unknown

\* ------------------------------------------- main.py: frequency bonus
\* groupby('title')['title'].transform('count')
TitleCount(df, i) == Cardinality({j \in 1..Len(df) : df[j].title = df[i].title})

\* The bonus with the clip lost.
FrequencyBonusUnclipped(df) == [i \in 1..Len(df) |-> TitleCount(df, i) - 1]

\* (title_counts - 1).clip(upper=2)
FrequencyBonus(df) == [i \in 1..Len(df) |-> Min(TitleCount(df, i) - 1, 2)]

\* object + int raises TypeError when the object is a str.
AddBonusRaises(df) == \E i \in 1..Len(df) : df[i].importance_score = NotNumber

\* classified_df['importance_score'] += frequency_bonus; NaN stays NaN.
AddBonus(df, bonus) ==
    [i \in 1..Len(df) |->
        [df[i] EXCEPT !.importance_score =
            IF df[i].importance_score = NaN THEN NaN
            ELSE df[i].importance_score + bonus[i]]]

\* ------------------------------------------ main.py: force-keep rules
\* str.contains(pat, case=False) is re.search with IGNORECASE: the strings of
\* the model are the titles, their upper-case spellings, the fragment "t"
\* they share, "", and the pattern ".", which matches any character.
Lower(s) == CASE s = "T1" -> "t1" [] s = "T2" -> "t2" [] s = "T" -> "t" [] OTHER -> s
IsSubstring(k, t) == k = "" \/ k = t \/ (k = "t" /\ t \in Titles)
Search(pattern, t) == IF pattern = "." THEN t # "" ELSE IsSubstring(pattern, t)
Contains(title, pattern) == Search(Lower(pattern), Lower(title))

\* str.contains('|'.join(keywords)): the empty pattern matches every title.
ContainsAny(title, keywords) ==
    \/ keywords = <<>>
    \/ \E k \in 1..Len(keywords) : Contains(title, keywords[k])

\* rule.get(key)
Get(rule, key) == IF key \in DOMAIN rule THEN rule[key] ELSE None

\* composite_mask for one row: every recognised condition holds.
CompositeMask(row, conditions) ==
    /\ "source" \in DOMAIN conditions => row.source = conditions["source"]
    /\ "category" \in DOMAIN conditions => row.category = conditions["category"]
    /\ "keyword" \in DOMAIN conditions => Contains(row.title, conditions["keyword"])

\* What one rule adds to force_keep_mask for one row.
RuleMask(row, rule) ==
    LET rule_type == Get(rule, "type") IN
    IF rule_type = "keyword" /\ "values" \in DOMAIN rule
    THEN ContainsAny(row.title, rule["values"])
    ELSE IF rule_type = "source" /\ "values" \in DOMAIN rule
    THEN row.source \in Range(rule["values"])
    ELSE IF rule_type = "category" /\ "values" \in DOMAIN rule
    THEN row.category \in Range(rule["values"])
    ELSE IF rule_type = "composite" /\ "conditions" \in DOMAIN rule
    THEN CompositeMask(row, rule["conditions"])
    ELSE FALSE

\* force_keep_mask of apply_force_keep_rules for one row.
ForceKeepMask(row, rules) == \E r \in 1..Len(rules) : RuleMask(row, rules[r])

\* apply_force_keep_rules: forced_df and candidate_df.  With no rule (or an
\* empty frame) forced_df is pd.DataFrame(), a frame without columns.
apply_force_keep_rules(df, rules) ==
    IF df = <<>> \/ rules = <<>>
    THEN [forced |-> <<>>, candidate |-> df, forced_has_columns |-> FALSE]
    ELSE [forced |-> MaskSeq(df, [i \in 1..Len(df) |-> ForceKeepMask(df[i], rules)]),
          candidate |-> MaskSeq(df, [i \in 1..Len(df) |-> ~ForceKeepMask(df[i], rules)]),
          forced_has_columns |-> TRUE]

\* config['force_keep_rules'] of the model.
RuleLists ==
    {<<>>,
     <<[type |-> "keyword", values |-> <<"T1">>]>>,
     <<[type |-> "source", values |-> <<"s2">>]>>,
     <<[type |-> "category", values |-> <<"tech">>]>>,
     <<[type |-> "composite", conditions |-> [source |-> "s1", category |-> "intl"]]>>,
     <<[type |-> "keyword", values |-> <<"t2">>], [type |-> "source", values |-> <<"s1">>]>>,
     <<[type |-> "composite", conditions |-> [keyword |-> "T", source |-> "s2"]]>>,
     <<[type |-> "keyword", values |-> <<".">>]>>,
     <<[type |-> "keyword", values |-> <<>>]>>,
     <<[type |-> "keyword"]>>,
     <<[type |-> "title", values |-> <<"t1">>]>>,
     <<[values |-> <<"t1">>]>>,
     <<[type |-> "composite"]>>,
     <<[type |-> "composite", conditions |-> [k \in {} |-> None]]>>,
     <<[type |-> "composite", conditions |-> [author |-> "a1"]]>>}

\* ------------------------------------------ main.py: quota selection
\* sort_values(by='importance_score', ascending=False): the default sort
\* kind is not stable, so rows of equal score may come out in any order.
IndexOrders(n) == {p \in [1..n -> 1..n] : \A i \in 1..n : \A j \in 1..n : i # j => p[i] # p[j]}
RankedOrders(df) ==
    {[i \in 1..Len(df) |-> df[p[i]]] : p \in
        {q \in IndexOrders(Len(df)) :
            \A i \in 1..Len(df) : \A j \in 1..Len(df) :
                i < j => df[q[i]].importance_score >= df[q[j]].importance_score}}

\* config['category_quotas'] and config['selection_total_limit'] of the model.
QuotaValues == (0 - 1)..MaxQuota
CategoryQuotas == UNION {[cs -> QuotaValues] : cs \in SUBSET Categories}
TotalLimits == (0 - 1)..MaxLimit

\* The loop over ranked_candidates_df, from row i on.
RECURSIVE QuotaWalk(_, _, _, _, _, _)
QuotaWalk(ranked, i, quota_selection, category_counts, quotas, total_limit) ==
    IF i > Len(ranked) \/ Len(quota_selection) >= total_limit
    THEN quota_selection
    ELSE LET cat == ranked[i].category IN
         IF cat \in DOMAIN category_counts
         THEN IF category_counts[cat] < quotas[cat]
              THEN QuotaWalk(ranked, i + 1, Append(quota_selection, ranked[i]),
                             [category_counts EXCEPT ![cat] = @ + 1], quotas, total_limit)
              ELSE QuotaWalk(ranked, i + 1, quota_selection, category_counts,
                             quotas, total_limit)
         ELSE QuotaWalk(ranked, i + 1, Append(quota_selection, ranked[i]),
                        category_counts, quotas, total_limit)

\* The walk with the test of the total limit lost.
QuotaSelectionNoLimit(ranked, quotas, total_limit) ==
    QuotaWalk(ranked, 1, <<>>, [c \in DOMAIN quotas |-> 0], quotas, Len(ranked) + 1)

\* The walk with category_counts left empty: no category has a counter.
QuotaSelectionNoCounters(ranked, quotas, total_limit) ==
    QuotaWalk(ranked, 1, <<>>, <<>>, quotas, total_limit)

\* The walk with the counters and the accepted count starting at one, as if
\* a forced article had been counted.
QuotaSelectionFromOne(ranked, quotas, total_limit) ==
    QuotaWalk(ranked, 1, <<>>, [c \in DOMAIN quotas |-> 1], quotas, total_limit - 1)

\* quota_selection for ranked candidates: counters start at zero.
QuotaSelection(ranked, quotas, total_limit) ==
    QuotaWalk(ranked, 1, <<>>, [c \in DOMAIN quotas |-> 0], quotas, total_limit)

\* ------------------------------------------------ main.py: final list
\* The final list with forced_df left out of the concatenation.
MergeFinalSelectionOnly(forced, selection) ==
    MaskSeq(selection, [i \in 1..Len(selection) |-> \A j \in 1..(i - 1) :
        ~(selection[j].url = selection[i].url /\ selection[j].title = selection[i].title)])

\* The final list with drop_duplicates(keep='last').
MergeFinalKeepLast(forced, selection) ==
    LET both == forced \o selection IN
    MaskSeq(both, [i \in 1..Len(both) |-> \A j \in (i + 1)..Len(both) :
        ~(both[j].url = both[i].url /\ both[j].title = both[i].title)])

\* pd.concat([forced_df, quota_selection_df]).drop_duplicates(['url','title'])
MergeFinal(forced, selection) ==
    LET both == forced \o selection IN
    MaskSeq(both, [i \in 1..Len(both) |-> \A j \in 1..(i - 1) :
        ~(both[j].url = both[i].url /\ both[j].title = both[i].title)])

\* The concatenation has no 'url' column: both frames are pd.DataFrame().
MergeRaises(forced_has_columns, selection) ==
    ~forced_has_columns /\ selection = <<>>

\* ----------------------------------------- main.py: content hydration
\* 'description' in final_list_df.columns
HasColumn(df, column) == \A i \in 1..Len(df) : column \in DOMAIN df[i]

\* BaseParser.fetch_full_content_from_url(url, fallback_text): the text of
\* the page when it is longer than 100 characters, else the fallback text.
FetchOutcomes == {FetchedText, FallbackText}

\* final_list_df['full_content'] for each way the fetches can end: the
\* description column as it is when the frame has one, else one fetch a row.
HydrationOutcomes(df) ==
    IF HasColumn(df, "description")
    THEN {[i \in 1..Len(df) |-> df[i].description]}
    ELSE [1..Len(df) -> FetchOutcomes]

\* ------------------------------------- ai_processing.py: summarization
MinSummaryLen == 50
TruncateLen == 200

\* `not content or len(content) < 50` is false: generate_content is called.
NeedsSummary(c) == ~(c = "" \/ TextLen(c) < MinSummaryLen)

\* content[:200] + "..." if len(content) > 200 else content
Truncate(c) == IF TextLen(c) > TruncateLen THEN TruncatedText ELSE c

\* The rows generate_content is called for, in order, and the calls with
\* the way each ended.
CalledRows(full) ==
    SelectSeq([i \in 1..Len(full) |-> i], LAMBDA i : NeedsSummary(full[i]))
CallsMade(full, outcome) ==
    [k \in 1..Len(CalledRows(full)) |->
        [row |-> CalledRows(full)[k], outcome |-> outcome[CalledRows(full)[k]]]]

\* ai_summarize_content with one try around the whole loop: after the first
\* exception every row gets the truncated content.
ai_summarize_content_one_try(full, configured, outcome) ==
    IF full = <<>> THEN [summarized_content |-> <<>>, calls |-> <<>>]
    ELSE IF ~configured \/ \E i \in 1..Len(full) : NeedsSummary(full[i]) /\ outcome[i] = "raises"
    THEN [summarized_content |-> [i \in 1..Len(full) |-> Truncate(full[i])],
          calls |-> IF configured THEN CallsMade(full, outcome) ELSE <<>>]
    ELSE [summarized_content |->
            [i \in 1..Len(full) |-> IF NeedsSummary(full[i]) THEN Summary ELSE full[i]],
          calls |-> CallsMade(full, outcome)]

\* ai_summarize_content: the summarized_content column and the calls made,
\* given whether configure_and_get_model returned and how each call ended.
ai_summarize_content(full, configured, outcome) ==
    IF full = <<>> THEN [summarized_content |-> <<>>, calls |-> <<>>]
    ELSE IF ~configured
    THEN [summarized_content |-> [i \in 1..Len(full) |-> Truncate(full[i])],
          calls |-> <<>>]
    ELSE [summarized_content |->
            [i \in 1..Len(full) |->
                IF ~NeedsSummary(full[i]) THEN full[i]
                ELSE IF outcome[i] = "ok" THEN Summary
                ELSE Truncate(full[i])],
          calls |-> CallsMade(full, outcome)]

\* ------------------------------------------------------ configuration
\* config.yaml as main() reads it.
Config(rules, quotas, limit, retention) ==
    [force_keep_rules |-> rules, category_quotas |-> quotas,
     selection_total_limit |-> limit, data_retention |-> retention]

\* The configurations whole runs of main() are explored with: the defaults of
\* main() (retention off), and with retention on a category quota alone and
\* a rule with every limit at zero.
RunConfigs ==
    {Config(<<>>, <<>>, MaxLimit, [enabled |-> FALSE, days_to_keep |-> 1]),
     Config(<<>>, [tech |-> 0], MaxLimit, [enabled |-> TRUE, days_to_keep |-> 1]),
     Config(<<[type |-> "keyword", values |-> <<"T1">>]>>, [tech |-> 0], 0,
            [enabled |-> TRUE, days_to_keep |-> 1])}

\* ------------------------------------------------------------- state
VARIABLES
    pc,                    \* position in main(), or the stage explored on its own
    run,                   \* "first" or "second" run of main() on this archive
    now,                   \* datetime.now(), in days
    config,                \* load_config()
    feed,                  \* what the source adapters return
    service,               \* the Scoring Service of the run
    adapter,               \* what happens in parse_single_source, per site
    archive,               \* the rows of the SQLite table
    conn,                  \* db_manager.conn: "open" or "closed"
    existing_urls,         \* main(): existing_urls
    pending,               \* futures as_completed has not yielded yet
    all_articles_raw,      \* main(): all_articles_raw
    raw_combined_df,       \* main(): raw_combined_df
    new_articles_df,       \* main(): new_articles_df
    filtered_articles,     \* main(): filtered_articles
    today_new_articles_df, \* main(): today_new_articles_df after drop_duplicates
    classified_df,         \* main(): classified_df
    frequency_bonus,       \* main(): frequency_bonus
    forced_df,             \* main(): forced_df
    forced_has_columns,    \* whether forced_df has the columns of the batch
    candidate_df,          \* main(): candidate_df
    quota_selection,       \* main(): quota_selection
    final_list_df,         \* main(): final_list_df
    report,                \* rows export_to_txt wrote
    full_content,          \* final_list_df['full_content'], row by row
    summarized_content,    \* final_df_summarized['summarized_content'], row by row
    summarize_calls,       \* the generate_content calls: row and outcome, in call order
    events,                \* service calls, archive calls and error logs of this run
    db_call,               \* the last call that wrote to the archive, with the table before it
    fetched_first          \* urls the first run fetched

content == <<full_content, summarized_content, summarize_calls>>

locals == <<existing_urls, pending, all_articles_raw, raw_combined_df,
            new_articles_df, filtered_articles, today_new_articles_df,
            classified_df, frequency_bonus, forced_df, forced_has_columns,
            candidate_df, quota_selection, final_list_df, report, content,
            events, db_call>>

world == <<run, now, config, feed, service, adapter, fetched_first>>

vars == <<pc, archive, conn, world, locals>>

\* Records of db_call.
NoCall == [op |-> "none"]
WriteCall(table, df, ts, raises) ==
    [op |-> "write", before |-> table, batch |-> df, today |-> ts, raised |-> raises]
RetentionCall(table, retention, today_) ==
    [op |-> "retention", before |-> table, retention |-> retention, today |-> today_]

\* The locals of main() before its first statement.
LocalsBlank ==
    /\ existing_urls = {} /\ pending = {} /\ all_articles_raw = <<>>
    /\ raw_combined_df = <<>> /\ new_articles_df = <<>> /\ filtered_articles = <<>>
    /\ today_new_articles_df = <<>> /\ classified_df = <<>> /\ frequency_bonus = <<>>
    /\ forced_df = <<>> /\ forced_has_columns = FALSE /\ candidate_df = <<>>
    /\ quota_selection = <<>> /\ final_list_df = <<>> /\ report = <<>>
    /\ full_content = <<>> /\ summarized_content = <<>> /\ summarize_calls = <<>>
    /\ events = <<>> /\ db_call = NoCall

\* A first run of main() on a new archive file.
Init ==
    /\ pc = "start" /\ run = "first" /\ now = 0
    /\ config \in RunConfigs
    /\ feed \in Feeds
    /\ service = PromptService
    /\ adapter = [s \in SiteNames |-> "ok"]
    /\ archive = {} /\ conn = "open"
    /\ fetched_first = {}
    /\ LocalsBlank

ExitPcs == {"exit_no_data", "exit_no_new", "exit_no_today", "exit_ai_failed"}
EndPcs == ExitPcs \cup {"done", "crashed"}

\* ------------------------------------------------------ main(): steps
\* The retention block: events it adds and the table it leaves.
RetentionEvents ==
    IF config.data_retention.enabled THEN <<"retention", "clean">> ELSE <<"retention">>

\* main() up to the worker pool: the archive is open, existing_urls is read
\* once, one future per configured site is submitted.
Start ==
    /\ pc = "start"
    /\ \E raises \in BOOLEAN :
        existing_urls' = get_existing_urls(archive, raises)
    /\ pending' = SiteNames
    /\ pc' = "fetch"
    /\ UNCHANGED <<archive, conn, world, all_articles_raw, raw_combined_df,
                   new_articles_df, filtered_articles, today_new_articles_df,
                   classified_df, frequency_bonus, forced_df, forced_has_columns,
                   candidate_df, quota_selection, final_list_df, report, content, events, db_call>>

\* One turn of the as_completed loop: any pending future whose call has
\* returned completes next; a non-empty result is appended to
\* all_articles_raw.
Collect ==
    /\ pc = "fetch"
    /\ \E site \in pending :
        LET result_df == parse_single_source(feed, site, adapter[site]) IN
        /\ adapter[site] # "hangs"
        /\ pending' = pending \ {site}
        /\ all_articles_raw' =
            IF result_df # <<>> THEN Append(all_articles_raw, result_df)
            ELSE all_articles_raw
    /\ UNCHANGED <<pc, archive, conn, world, existing_urls, raw_combined_df,
                   new_articles_df, filtered_articles, today_new_articles_df,
                   classified_df, frequency_bonus, forced_df, forced_has_columns,
                   candidate_df, quota_selection, final_list_df, report, content, events, db_call>>

\* After the pool: return when nothing was fetched, else concatenate.
Combine ==
    /\ pc = "fetch" /\ pending = {}
    /\ IF all_articles_raw = <<>>
       THEN /\ pc' = "exit_no_data"
            /\ UNCHANGED raw_combined_df
       ELSE /\ pc' = "combined"
            /\ raw_combined_df' = Concat(all_articles_raw)
    /\ UNCHANGED <<archive, conn, world, existing_urls, pending, all_articles_raw,
                   new_articles_df, filtered_articles, today_new_articles_df,
                   classified_df, frequency_bonus, forced_df, forced_has_columns,
                   candidate_df, quota_selection, final_list_df, report, content, events, db_call>>

\* The incremental filter; with no new article: retention, close, return.
Incremental ==
    /\ pc = "combined"
    /\ new_articles_df' = IncrementalFilter(raw_combined_df, existing_urls)
    /\ IF new_articles_df' = <<>>
       THEN /\ archive' = RetentionStep(archive, config.data_retention, now)
            /\ db_call' = RetentionCall(archive, config.data_retention, now)
            /\ conn' = "closed"
            /\ events' = events \o RetentionEvents \o <<"close">>
            /\ pc' = "exit_no_new"
       ELSE /\ pc' = "new"
            /\ UNCHANGED <<archive, conn, events, db_call>>
    /\ UNCHANGED <<world, existing_urls, pending, all_articles_raw, raw_combined_df,
                   filtered_articles, today_new_articles_df,
                   classified_df, frequency_bonus, forced_df, forced_has_columns,
                   candidate_df, quota_selection, final_list_df, report, content>>

\* The date filter; return when no article was published today.  An
\* exception the loop does not catch ends main().
DateFilter ==
    /\ pc = "new"
    /\ IF DateFilterRaises(new_articles_df)
       THEN /\ pc' = "crashed"
            /\ UNCHANGED filtered_articles
       ELSE /\ filtered_articles' = SameDayFilter(new_articles_df, now)
            /\ pc' = IF filtered_articles' = <<>> THEN "exit_no_today" ELSE "today"
    /\ UNCHANGED <<archive, conn, world, existing_urls, pending, all_articles_raw,
                   raw_combined_df, new_articles_df, today_new_articles_df,
                   classified_df, frequency_bonus, forced_df, forced_has_columns,
                   candidate_df, quota_selection, final_list_df, report, content, events, db_call>>

\* Title deduplication.
TitleDedup ==
    /\ pc = "today"
    /\ today_new_articles_df' = DropDuplicateTitles(filtered_articles)
    /\ pc' = "deduped"
    /\ UNCHANGED <<archive, conn, world, existing_urls, pending, all_articles_raw,
                   raw_combined_df, new_articles_df, filtered_articles,
                   classified_df, frequency_bonus, forced_df, forced_has_columns,
                   candidate_df, quota_selection, final_list_df, report, content, events, db_call>>

\* classified_df = ai_rank_and_classify_articles(today_new_articles_df)
Rank ==
    /\ pc = "deduped"
    /\ \E response \in ServiceAnswers(service) :
        /\ classified_df' = ai_rank_and_classify_articles(today_new_articles_df, response)
        /\ events' = events \o (IF response.raises THEN <<"score", "score_error">>
                                 ELSE <<"score">>)
    /\ pc' = "classified"
    /\ UNCHANGED <<archive, conn, world, existing_urls, pending, all_articles_raw,
                   raw_combined_df, new_articles_df, filtered_articles,
                   today_new_articles_df, frequency_bonus, forced_df,
                   forced_has_columns, candidate_df, quota_selection, final_list_df,
                   report, content, db_call>>

\* The test after the scoring step: return when every category is unknown.
CheckClassified ==
    /\ pc = "classified"
    /\ pc' = IF AllUnknown(classified_df) THEN "exit_ai_failed" ELSE "checked"
    /\ UNCHANGED <<archive, conn, world, locals>>

\* The frequency bonus, computed on classified_df.
Bonus ==
    /\ pc = "checked"
    /\ frequency_bonus' = FrequencyBonus(classified_df)
    /\ IF AddBonusRaises(classified_df)
       THEN /\ pc' = "crashed"
            /\ UNCHANGED classified_df
       ELSE /\ pc' = "bonused"
            /\ classified_df' = AddBonus(classified_df, frequency_bonus')
    /\ UNCHANGED <<archive, conn, world, existing_urls, pending, all_articles_raw,
                   raw_combined_df, new_articles_df, filtered_articles,
                   today_new_articles_df, forced_df, forced_has_columns,
                   candidate_df, quota_selection, final_list_df, report, content, events, db_call>>

\* forced_df, candidate_df = apply_force_keep_rules(classified_df, rules)
ForceKeep ==
    /\ pc = "bonused"
    /\ LET split == apply_force_keep_rules(classified_df, config.force_keep_rules) IN
        /\ forced_df' = split.forced
        /\ candidate_df' = split.candidate
        /\ forced_has_columns' = split.forced_has_columns
    /\ pc' = "partitioned"
    /\ UNCHANGED <<archive, conn, world, existing_urls, pending, all_articles_raw,
                   raw_combined_df, new_articles_df, filtered_articles,
                   today_new_articles_df, classified_df, frequency_bonus,
                   quota_selection, final_list_df, report, content, events, db_call>>

\* Sort the candidates and walk them under the quotas and the total limit.
QuotaSelect ==
    /\ pc = "partitioned"
    /\ \E ranked \in RankedOrders(candidate_df) :
        quota_selection' =
            QuotaSelection(ranked, config.category_quotas, config.selection_total_limit)
    /\ pc' = "selected"
    /\ UNCHANGED <<archive, conn, world, existing_urls, pending, all_articles_raw,
                   raw_combined_df, new_articles_df, filtered_articles,
                   today_new_articles_df, classified_df, frequency_bonus, forced_df,
                   forced_has_columns, candidate_df, final_list_df, report, content, events, db_call>>

\* Concatenate and drop duplicate (url, title) pairs; a KeyError ends main()
\* when neither frame has columns.
Final ==
    /\ pc = "selected"
    /\ IF MergeRaises(forced_has_columns, quota_selection)
       THEN /\ pc' = "crashed"
            /\ UNCHANGED final_list_df
       ELSE /\ pc' = "final"
            /\ final_list_df' = MergeFinal(forced_df, quota_selection)
    /\ UNCHANGED <<archive, conn, world, existing_urls, pending, all_articles_raw,
                   raw_combined_df, new_articles_df, filtered_articles,
                   today_new_articles_df, classified_df, frequency_bonus, forced_df,
                   forced_has_columns, candidate_df, quota_selection, report, content, events, db_call>>

\* Content hydration of the final list.
Hydrate ==
    /\ pc = "final"
    /\ full_content' \in HydrationOutcomes(final_list_df)
    /\ pc' = "hydrated"
    /\ UNCHANGED <<archive, conn, world, existing_urls, pending, all_articles_raw,
                   raw_combined_df, new_articles_df, filtered_articles,
                   today_new_articles_df, classified_df, frequency_bonus, forced_df,
                   forced_has_columns, candidate_df, quota_selection, final_list_df,
                   report, summarized_content, summarize_calls, events, db_call>>

\* db_manager.write_new_articles(articles_to_db)
DbWrite ==
    /\ pc = "hydrated"
    /\ \E raises \in BOOLEAN :
        /\ archive' = write_new_articles(archive, today_new_articles_df, now, raises)
        /\ db_call' = WriteCall(archive, today_new_articles_df, now, raises)
        /\ events' = events \o
            (IF WriteSucceeds(archive, today_new_articles_df, raises)
             THEN <<"append">> ELSE <<"append", "append_error">>)
    /\ pc' = "written"
    /\ UNCHANGED <<conn, world, existing_urls, pending, all_articles_raw,
                   raw_combined_df, new_articles_df, filtered_articles,
                   today_new_articles_df, classified_df, frequency_bonus, forced_df,
                   forced_has_columns, candidate_df, quota_selection, final_list_df,
                   report, content>>

\* The retention block at the end of a complete run.
Prune ==
    /\ pc = "written"
    /\ archive' = RetentionStep(archive, config.data_retention, now)
    /\ db_call' = RetentionCall(archive, config.data_retention, now)
    /\ events' = events \o RetentionEvents
    /\ pc' = "pruned"
    /\ UNCHANGED <<conn, world, existing_urls, pending, all_articles_raw,
                   raw_combined_df, new_articles_df, filtered_articles,
                   today_new_articles_df, classified_df, frequency_bonus, forced_df,
                   forced_has_columns, candidate_df, quota_selection, final_list_df,
                   report, content>>

\* ai_summarize_content, export_to_txt, db_manager.close()
Export ==
    /\ pc = "pruned"
    /\ \E configured \in BOOLEAN :
       \E outcome \in [Range(CalledRows(full_content)) -> {"ok", "raises"}] :
        LET done == ai_summarize_content(full_content, configured, outcome) IN
        /\ summarized_content' = done.summarized_content
        /\ summarize_calls' = done.calls
    /\ report' = final_list_df
    /\ conn' = "closed"
    /\ events' = events \o <<"export", "close">>
    /\ pc' = "done"
    /\ UNCHANGED <<archive, world, existing_urls, pending, all_articles_raw,
                   raw_combined_df, new_articles_df, filtered_articles,
                   today_new_articles_df, classified_df, frequency_bonus, forced_df,
                   forced_has_columns, candidate_df, quota_selection, final_list_df,
                   full_content, db_call>>

\* The process has ended; main() is run again on the same archive file, the
\* same day or on the last day, with the adapters returning what they
\* returned before.
NextRun ==
    /\ pc \in EndPcs /\ run = "first"
    /\ run' = "second"
    /\ \E day \in {now, MaxDay} : now' = day
    /\ fetched_first' = ColumnUrls(Concat(all_articles_raw))
    /\ conn' = "open"
    /\ pc' = "start"
    /\ existing_urls' = {} /\ pending' = {} /\ all_articles_raw' = <<>>
    /\ raw_combined_df' = <<>> /\ new_articles_df' = <<>> /\ filtered_articles' = <<>>
    /\ today_new_articles_df' = <<>> /\ classified_df' = <<>> /\ frequency_bonus' = <<>>
    /\ forced_df' = <<>> /\ forced_has_columns' = FALSE /\ candidate_df' = <<>>
    /\ quota_selection' = <<>> /\ final_list_df' = <<>> /\ report' = <<>>
    /\ full_content' = <<>> /\ summarized_content' = <<>> /\ summarize_calls' = <<>>
    /\ events' = <<>> /\ db_call' = NoCall
    /\ UNCHANGED <<config, feed, service, adapter, archive>>

Next ==
    \/ Start \/ Collect \/ Combine \/ Incremental \/ DateFilter \/ TitleDedup
    \/ Rank \/ CheckClassified \/ Bonus \/ ForceKeep \/ QuotaSelect \/ Final
    \/ Hydrate \/ DbWrite \/ Prune \/ Export \/ NextRun

Spec == Init /\ [][Next]_vars

\* --------------------------------------------------- stages on their own
\* The configuration of main() when config.yaml sets none of its keys.
DefaultConfig == Config(<<>>, <<>>, MaxLimit, [enabled |-> FALSE, days_to_keep |-> 1])

\* DatabaseManager on its own: any sequence of write_new_articles and
\* retention calls on one open archive, the clock advancing in between.
StoreBatches ==
    SeqsUpTo([url : Urls, title : Titles, source : {"s1"}, publish_time : {"1970-01-01"},
              description : {LongText}],
             MaxArticles)

InitStore ==
    /\ pc = "store" /\ run = "first" /\ now = 0
    /\ config = DefaultConfig /\ feed = <<>>
    /\ service = PromptService /\ adapter = [s \in SiteNames |-> "ok"]
    /\ archive = {} /\ conn = "open"
    /\ fetched_first = {}
    /\ LocalsBlank

StoreWrite ==
    /\ pc = "store"
    /\ \E df \in StoreBatches : \E raises \in BOOLEAN :
        /\ archive' = write_new_articles(archive, df, now, raises)
        /\ db_call' = WriteCall(archive, df, now, raises)
    /\ UNCHANGED <<pc, conn, world, existing_urls, pending, all_articles_raw,
                   raw_combined_df, new_articles_df, filtered_articles,
                   today_new_articles_df, classified_df, frequency_bonus, forced_df,
                   forced_has_columns, candidate_df, quota_selection, final_list_df,
                   report, content, events>>

StoreRetention ==
    /\ pc = "store"
    /\ \E retention \in RetentionConfigs :
        /\ archive' = RetentionStep(archive, retention, now)
        /\ db_call' = RetentionCall(archive, retention, now)
    /\ UNCHANGED <<pc, conn, world, existing_urls, pending, all_articles_raw,
                   raw_combined_df, new_articles_df, filtered_articles,
                   today_new_articles_df, classified_df, frequency_bonus, forced_df,
                   forced_has_columns, candidate_df, quota_selection, final_list_df,
                   report, content, events>>

Tick ==
    /\ pc = "store" /\ now < MaxDay
    /\ now' = now + 1
    /\ UNCHANGED <<pc, archive, conn, run, config, feed, service, adapter,
                   fetched_first, locals>>

NextStore == StoreWrite \/ StoreRetention \/ Tick

SpecStore == InitStore /\ [][NextStore]_vars

\* The quota selection on its own: any candidate frame, any quotas, any limit.
CandidateRows ==
    [url : {"u1"}, title : {"t1"}, source : {"s1"}, publish_time : {"1970-01-01"},
     description : {LongText},
     importance_score : 0..MaxScore, category : Categories]

\* Five candidates of one category with the scores 9, 8, 7, 6 and 5.
FiveTechCandidates ==
    [i \in 1..5 |->
        [url |-> "u1", title |-> "t1", source |-> "s1", publish_time |-> "1970-01-01",
         description |-> LongText,
         importance_score |-> <<7, 9, 5, 8, 6>>[i], category |-> "tech"]]

InitQuota ==
    /\ pc = "partitioned" /\ run = "first" /\ now = 0
    /\ config \in {Config(<<>>, q, t, DefaultConfig.data_retention) :
                      q \in CategoryQuotas, t \in TotalLimits}
    /\ feed = <<>> /\ service = PromptService /\ adapter = [s \in SiteNames |-> "ok"]
    /\ archive = {} /\ conn = "open" /\ fetched_first = {}
    /\ candidate_df \in SeqsUpTo(CandidateRows, MaxCandidates) \cup {FiveTechCandidates}
    /\ classified_df = candidate_df
    /\ existing_urls = {} /\ pending = {} /\ all_articles_raw = <<>>
    /\ raw_combined_df = <<>> /\ new_articles_df = <<>> /\ filtered_articles = <<>>
    /\ today_new_articles_df = <<>> /\ frequency_bonus = <<>>
    /\ forced_df = <<>> /\ forced_has_columns = FALSE
    /\ quota_selection = <<>> /\ final_list_df = <<>> /\ report = <<>>
    /\ full_content = <<>> /\ summarized_content = <<>> /\ summarize_calls = <<>>
    /\ events = <<>> /\ db_call = NoCall

SpecQuota == InitQuota /\ [][QuotaSelect]_vars

\* apply_force_keep_rules on its own: any scored frame, any rule list.
RuleRows ==
    [url : {"u1"}, title : Titles, source : SiteNames, publish_time : {"1970-01-01"},
     description : {LongText},
     importance_score : {1}, category : Categories]

InitRules ==
    /\ pc = "bonused" /\ run = "first" /\ now = 0
    /\ config \in {Config(rules, <<>>, MaxLimit, DefaultConfig.data_retention) :
                      rules \in RuleLists}
    /\ feed = <<>> /\ service = PromptService /\ adapter = [s \in SiteNames |-> "ok"]
    /\ archive = {} /\ conn = "open" /\ fetched_first = {}
    /\ classified_df \in SeqsUpTo(RuleRows, MaxCandidates)
    /\ existing_urls = {} /\ pending = {} /\ all_articles_raw = <<>>
    /\ raw_combined_df = <<>> /\ new_articles_df = <<>> /\ filtered_articles = <<>>
    /\ today_new_articles_df = <<>> /\ frequency_bonus = <<>>
    /\ forced_df = <<>> /\ forced_has_columns = FALSE /\ candidate_df = <<>>
    /\ quota_selection = <<>> /\ final_list_df = <<>> /\ report = <<>>
    /\ full_content = <<>> /\ summarized_content = <<>> /\ summarize_calls = <<>>
    /\ events = <<>> /\ db_call = NoCall

SpecRules == InitRules /\ [][ForceKeep]_vars

\* The partition, the quota selection and the merge together: any scored
\* frame, a rule, a quota and a total limit.
SelectRows ==
    [url : {"u1"}, title : Titles, source : {"s1"}, publish_time : {"1970-01-01"},
     description : {LongText},
     importance_score : 0..MaxScore, category : Categories]

SelectConfigs ==
    {Config(rules, q, t, DefaultConfig.data_retention) :
        rules \in {<<[type |-> "keyword", values |-> <<"T1">>]>>,
                   <<[type |-> "category", values |-> <<"tech">>]>>},
        q \in {<<>>, [tech |-> 1], [intl |-> 0]},
        t \in {0 - 1, 0, 1, MaxLimit}}

InitSelect ==
    /\ pc = "bonused" /\ run = "first" /\ now = 0
    /\ config \in SelectConfigs
    /\ feed = <<>> /\ service = PromptService /\ adapter = [s \in SiteNames |-> "ok"]
    /\ archive = {} /\ conn = "open" /\ fetched_first = {}
    /\ classified_df \in SeqsUpTo(SelectRows, MaxCandidates)
    /\ existing_urls = {} /\ pending = {} /\ all_articles_raw = <<>>
    /\ raw_combined_df = <<>> /\ new_articles_df = <<>> /\ filtered_articles = <<>>
    /\ today_new_articles_df = <<>> /\ frequency_bonus = <<>>
    /\ forced_df = <<>> /\ forced_has_columns = FALSE /\ candidate_df = <<>>
    /\ quota_selection = <<>> /\ final_list_df = <<>> /\ report = <<>>
    /\ full_content = <<>> /\ summarized_content = <<>> /\ summarize_calls = <<>>
    /\ events = <<>> /\ db_call = NoCall

NextSelect == ForceKeep \/ QuotaSelect \/ Final

SpecSelect == InitSelect /\ [][NextSelect]_vars

\* The merge on its own: any forced frame of the source s1 and any quota
\* selection of the source s2, (url, title) pairs repeated or not.
MergeRows(site) ==
    [url : Urls, title : Titles, source : {site}, publish_time : {"1970-01-01"},
     description : {LongText},
     importance_score : {1}, category : {"tech"}]

InitMerge ==
    /\ pc = "selected" /\ run = "first" /\ now = 0
    /\ config = Config(<<[type |-> "source", values |-> <<"s1">>]>>, <<>>, MaxLimit,
                       DefaultConfig.data_retention)
    /\ feed = <<>> /\ service = PromptService /\ adapter = [s \in SiteNames |-> "ok"]
    /\ archive = {} /\ conn = "open" /\ fetched_first = {}
    /\ forced_df \in SeqsUpTo(MergeRows("s1"), MaxCandidates)
    /\ quota_selection \in SeqsUpTo(MergeRows("s2"), MaxCandidates)
    /\ candidate_df = quota_selection
    /\ classified_df = forced_df \o candidate_df
    /\ forced_has_columns = (classified_df # <<>>)
    /\ existing_urls = {} /\ pending = {} /\ all_articles_raw = <<>>
    /\ raw_combined_df = <<>> /\ new_articles_df = <<>> /\ filtered_articles = <<>>
    /\ today_new_articles_df = <<>> /\ frequency_bonus = <<>>
    /\ final_list_df = <<>> /\ report = <<>>
    /\ full_content = <<>> /\ summarized_content = <<>> /\ summarize_calls = <<>>
    /\ events = <<>> /\ db_call = NoCall

SpecMerge == InitMerge /\ [][Final]_vars

\* The content hydration on its own: any final list whose rows have a
\* description of any length, or whose rows have no description.
HydrateRows ==
    [url : Urls, title : {"t1"}, source : {"s1"}, publish_time : {"1970-01-01"},
     description : Texts, importance_score : {1}, category : {"tech"}]
NoDescriptionRows ==
    [url : Urls, title : {"t1"}, source : {"s1"}, publish_time : {"1970-01-01"},
     importance_score : {1}, category : {"tech"}]

InitHydrate ==
    /\ pc = "final" /\ run = "first" /\ now = 0
    /\ config = DefaultConfig
    /\ feed = <<>> /\ service = PromptService /\ adapter = [s \in SiteNames |-> "ok"]
    /\ archive = {} /\ conn = "open" /\ fetched_first = {}
    /\ final_list_df \in SeqsUpTo(HydrateRows, MaxCandidates)
                         \cup SeqsUpTo(NoDescriptionRows, MaxCandidates)
    /\ quota_selection = final_list_df /\ candidate_df = final_list_df
    /\ classified_df = final_list_df /\ today_new_articles_df = <<>>
    /\ forced_df = <<>> /\ forced_has_columns = FALSE
    /\ existing_urls = {} /\ pending = {} /\ all_articles_raw = <<>>
    /\ raw_combined_df = <<>> /\ new_articles_df = <<>> /\ filtered_articles = <<>>
    /\ frequency_bonus = <<>> /\ report = <<>>
    /\ full_content = <<>> /\ summarized_content = <<>> /\ summarize_calls = <<>>
    /\ events = <<>> /\ db_call = NoCall

SpecHydrate == InitHydrate /\ [][Hydrate]_vars

\* ai_summarize_content and the export on their own: any final list with
\* any full_content.
SummarizeRows ==
    [url : Urls, title : {"t1"}, source : {"s1"}, publish_time : {"1970-01-01"},
     description : {LongText}, importance_score : {1}, category : {"tech"}]

InitSummarize ==
    /\ pc = "pruned" /\ run = "first" /\ now = 0
    /\ config = DefaultConfig
    /\ feed = <<>> /\ service = PromptService /\ adapter = [s \in SiteNames |-> "ok"]
    /\ archive = {} /\ conn = "open" /\ fetched_first = {}
    /\ final_list_df \in SeqsUpTo(SummarizeRows, MaxCandidates)
    /\ full_content \in [1..Len(final_list_df) -> Texts \cup FetchOutcomes]
    /\ quota_selection = final_list_df /\ candidate_df = final_list_df
    /\ classified_df = final_list_df /\ today_new_articles_df = <<>>
    /\ forced_df = <<>> /\ forced_has_columns = FALSE
    /\ existing_urls = {} /\ pending = {} /\ all_articles_raw = <<>>
    /\ raw_combined_df = <<>> /\ new_articles_df = <<>> /\ filtered_articles = <<>>
    /\ frequency_bonus = <<>> /\ report = <<>>
    /\ summarized_content = <<>> /\ summarize_calls = <<>>
    /\ events = <<>> /\ db_call = NoCall

SpecSummarize == InitSummarize /\ [][Export]_vars

\* The frequency bonus on its own: any scored frame, titles repeated or not.
BonusRows ==
    [url : {"u1"}, title : Titles, source : {"s1"}, publish_time : {"1970-01-01"},
     description : {LongText},
     importance_score : 0..MaxScore, category : {"tech"}]

InitBonus ==
    /\ pc = "checked" /\ run = "first" /\ now = 0
    /\ config = DefaultConfig
    /\ feed = <<>> /\ service = PromptService /\ adapter = [s \in SiteNames |-> "ok"]
    /\ archive = {} /\ conn = "open" /\ fetched_first = {}
    /\ classified_df \in SeqsUpTo(BonusRows, MaxDup)
    /\ existing_urls = {} /\ pending = {} /\ all_articles_raw = <<>>
    /\ raw_combined_df = <<>> /\ new_articles_df = <<>> /\ filtered_articles = <<>>
    /\ today_new_articles_df = <<>> /\ frequency_bonus = <<>>
    /\ forced_df = <<>> /\ forced_has_columns = FALSE /\ candidate_df = <<>>
    /\ quota_selection = <<>> /\ final_list_df = <<>> /\ report = <<>>
    /\ full_content = <<>> /\ summarized_content = <<>> /\ summarize_calls = <<>>
    /\ events = <<>> /\ db_call = NoCall

SpecBonus == InitBonus /\ [][Bonus]_vars

\* The worker pool on its own: any feed, any outcome of each adapter call.
InitFetch ==
    /\ pc = "start" /\ run = "first" /\ now = 0
    /\ config = DefaultConfig
    /\ feed \in Feeds
    /\ service = PromptService
    /\ adapter \in [SiteNames -> AdapterOutcomes]
    /\ archive = {} /\ conn = "open" /\ fetched_first = {}
    /\ LocalsBlank

NextFetch == Start \/ Collect \/ Combine

SpecFetch == InitFetch /\ [][NextFetch]_vars

\* The date filter on its own: new articles with any publish_time.
DateRows ==
    [url : {"u1"}, title : {"t1"}, source : {"s1"},
     publish_time : PubTimes \cup {"1970-01-02"} \cup OddPubTimes,
     description : {LongText}]

InitDate ==
    /\ pc = "new" /\ run = "first" /\ now \in 0..1
    /\ config = DefaultConfig
    /\ feed = <<>> /\ service = PromptService /\ adapter = [s \in SiteNames |-> "ok"]
    /\ archive = {} /\ conn = "open" /\ fetched_first = {}
    /\ new_articles_df \in SeqsUpTo(DateRows, MaxBatch)
    /\ new_articles_df # <<>>
    /\ raw_combined_df = new_articles_df
    /\ all_articles_raw = <<new_articles_df>>
    /\ existing_urls = {} /\ pending = {} /\ filtered_articles = <<>>
    /\ today_new_articles_df = <<>> /\ classified_df = <<>> /\ frequency_bonus = <<>>
    /\ forced_df = <<>> /\ forced_has_columns = FALSE /\ candidate_df = <<>>
    /\ quota_selection = <<>> /\ final_list_df = <<>> /\ report = <<>>
    /\ full_content = <<>> /\ summarized_content = <<>> /\ summarize_calls = <<>>
    /\ events = <<>> /\ db_call = NoCall

SpecDate == InitDate /\ [][DateFilter]_vars

\* The scoring step on its own: any deduplicated batch, and a service with
\* one answer, of any shape.
ScoreRows ==
    [url : Urls, title : Titles, source : {"s1"}, publish_time : {"1970-01-01"},
     description : {LongText}]

InitScore ==
    /\ pc = "deduped" /\ run = "first" /\ now = 0
    /\ config = DefaultConfig
    /\ feed = <<>> /\ adapter = [s \in SiteNames |-> "ok"]
    /\ service \in {FixedService(response) : response \in AnyResponses}
    /\ archive = {} /\ conn = "open" /\ fetched_first = {}
    /\ today_new_articles_df \in SeqsUpTo(ScoreRows, MaxArticles)
    /\ today_new_articles_df # <<>>
    /\ today_new_articles_df = DropDuplicateTitles(today_new_articles_df)
    /\ filtered_articles = today_new_articles_df
    /\ new_articles_df = today_new_articles_df
    /\ raw_combined_df = today_new_articles_df
    /\ all_articles_raw = <<today_new_articles_df>>
    /\ existing_urls = {} /\ pending = {}
    /\ classified_df = <<>> /\ frequency_bonus = <<>>
    /\ forced_df = <<>> /\ forced_has_columns = FALSE /\ candidate_df = <<>>
    /\ quota_selection = <<>> /\ final_list_df = <<>> /\ report = <<>>
    /\ full_content = <<>> /\ summarized_content = <<>> /\ summarize_calls = <<>>
    /\ events = <<>> /\ db_call = NoCall

NextScore == Rank \/ CheckClassified \/ Bonus

SpecScore == InitScore /\ [][NextScore]_vars

\* ------------------------------------------------------------ claims
Occurs(e) == e \in Range(events)
Before(e, f) ==
    \E i \in 1..Len(events) : \E j \in 1..Len(events) :
        i < j /\ events[i] = e /\ events[j] = f
AfterFinal == {"final", "hydrated", "written", "pruned", "done"}
Max(a, b) == IF a > b THEN a ELSE b
RowCount(df, c) == Cardinality({i \in 1..Len(df) : df[i].category = c})

\* C1: if the Scoring Service call raises, every article of the batch has
\* importance_score 0 and category unknown after the scoring step, and the
\* run does not return there: it goes on to the final list and the export.
C1_DegradedScoringContinues ==
    Occurs("score_error") =>
        /\ \A i \in 1..Len(classified_df) :
            /\ classified_df[i].importance_score = 0
            /\ classified_df[i].category = Unknown
        /\ pc # "exit_ai_failed"

\* C2: in a second run of main() on the same day and the same archive, the
\* adapters returning the same articles, no url the first run fetched is in
\* the batch sent to the Scoring Service or in the exported report.
C2_SecondRunSkipsFetchedUrls ==
    (run = "second" /\ now = 0) =>
        /\ ColumnUrls(classified_df) \cap fetched_first = {}
        /\ ColumnUrls(report) \cap fetched_first = {}

\* C3: the incremental filter outputs exactly the fetched rows whose url is
\* not in existing_urls, in order; when every fetched url is in existing_urls
\* the run returns with nothing scored and nothing exported.
C3_IncrementalFilterExact ==
    pc \notin {"start", "fetch", "combined", "exit_no_data"} =>
        /\ new_articles_df =
            SelectSeq(raw_combined_df, LAMBDA r : r.url \notin existing_urls)
        /\ ColumnUrls(raw_combined_df) \subseteq existing_urls =>
            /\ pc = "exit_no_new"
            /\ ~Occurs("score") /\ ~Occurs("export")
            /\ classified_df = <<>> /\ report = <<>>

\* C3 witness: a run that fetched articles, found all of them in the archive
\* and returned at the no-new-articles exit.
C3_Witness ==
    /\ pc = "exit_no_new" /\ raw_combined_df # <<>>
    /\ existing_urls # {} /\ new_articles_df = <<>>

\* The sum of the values of a quota mapping over the categories cats.
RECURSIVE QuotaSum(_, _)
QuotaSum(quotas, cats) ==
    IF cats = {} THEN 0
    ELSE LET c == CHOOSE x \in cats : TRUE
         IN quotas[c] + QuotaSum(quotas, cats \ {c})

\* A quota mapping with its negative values raised to zero.
Clamped(quotas) == [c \in DOMAIN quotas |-> Max(quotas[c], 0)]

Unbounded(df, quotas) ==
    Cardinality({i \in 1..Len(df) : df[i].category \notin DOMAIN quotas})

\* C4 as stated: the quota selection holds at most min(T, sum of Q + number
\* of candidates of a category not in Q) rows, and at most Q[c] rows of each
\* category c of Q, for every Q and T.
C4_QuotaCeilingAsStated ==
    pc = "selected" =>
        LET Q == config.category_quotas
            T == config.selection_total_limit
        IN /\ Len(quota_selection) <=
                Min(T, QuotaSum(Q, DOMAIN Q) + Unbounded(candidate_df, Q))
           /\ \A c \in DOMAIN Q : RowCount(quota_selection, c) <= Q[c]

\* C4 amended: a negative limit or quota counts as zero: the quota selection
\* holds at most max(0, min(T, sum of max(Q[c], 0) + number of candidates of a
\* category not in Q)) rows and at most max(Q[c], 0) rows of each category c
\* of Q.
C4_QuotaCeiling ==
    pc = "selected" =>
        LET Q == config.category_quotas
            T == config.selection_total_limit
        IN /\ Len(quota_selection) <=
                Max(0, Min(T, QuotaSum(Clamped(Q), DOMAIN Q)
                               + Unbounded(candidate_df, Q)))
           /\ \A c \in DOMAIN Q : RowCount(quota_selection, c) <= Max(Q[c], 0)

\* C4 witness: a selection cut by the total limit while a category of Q is
\* at its quota with candidates of that category left over.
C4_Witness ==
    /\ pc = "selected"
    /\ Len(quota_selection) = config.selection_total_limit
    /\ Len(quota_selection) < Len(candidate_df)
    /\ \E c \in DOMAIN config.category_quotas :
        /\ config.category_quotas[c] > 0
        /\ RowCount(quota_selection, c) = config.category_quotas[c]
        /\ RowCount(candidate_df, c) > config.category_quotas[c]

\* C5: every row of the scored batch that matches a force-keep rule is in
\* the final list, whatever its score, its category's quota and the total
\* limit.
C5_ForceKeepPrecedence ==
    pc \in AfterFinal =>
        \A i \in 1..Len(classified_df) :
            ForceKeepMask(classified_df[i], config.force_keep_rules) =>
                \E j \in 1..Len(final_list_df) : final_list_df[j] = classified_df[i]

\* C5 witness: a completed run whose final list holds a forced row of score 0
\* of a category whose quota is 0, the total limit being 0 and a candidate
\* having been left out.
C5_Witness ==
    /\ pc = "done"
    /\ config.selection_total_limit = 0
    /\ candidate_df # <<>> /\ quota_selection = <<>>
    /\ \E i \in 1..Len(forced_df) :
        /\ forced_df[i].importance_score <= 1
        /\ forced_df[i].category \in DOMAIN config.category_quotas
        /\ config.category_quotas[forced_df[i].category] = 0
        /\ forced_df[i] \in Range(report)

\* C6: the frequency bonus of a row is min(count - 1, 2), count being the
\* number of rows of its title after the date filter and before the title
\* deduplication.
C6_BonusCountsBeforeDedup ==
    pc \in {"bonused", "partitioned", "selected"} \cup AfterFinal =>
        \A i \in 1..Len(classified_df) :
            frequency_bonus[i] =
                Min(Cardinality({j \in 1..Len(filtered_articles) :
                        filtered_articles[j].title = classified_df[i].title}) - 1, 2)

\* C7: for every frame and every number of rows sharing a title, the bonus of
\* each row is an integer from 0 to 2.
C7_BonusRange ==
    pc = "bonused" =>
        /\ Len(frequency_bonus) = Len(classified_df)
        /\ \A i \in 1..Len(frequency_bonus) : frequency_bonus[i] \in 0..2

\* C7 witness: a frame with four rows of one title, their bonus held at 2.
C7_Witness ==
    /\ pc = "bonused"
    /\ \E i \in 1..Len(classified_df) :
        TitleCount(classified_df, i) >= 4 /\ frequency_bonus[i] = 2

\* C8: after write_new_articles without a storage fault, every row of the
\* batch whose url was not stored before the call is stored.
C8_WriteSkipsDuplicates ==
    (db_call.op = "write" /\ ~db_call.raised) =>
        \A i \in 1..Len(db_call.batch) :
            db_call.batch[i].url \notin StoredUrls(db_call.before) =>
                db_call.batch[i].url \in StoredUrls(archive)

C10_PruneThenCloseOnEveryExit ==
    pc \in ExitPcs \cup {"done"} =>
        /\ Before("retention", "close")
        /\ config.data_retention.enabled => Before("clean", "close")
        /\ conn = "closed"

\* The rows of df that come from site s, in order.
RowsOf(df, s) == SelectSeq(df, LAMBDA r : r.source = s)

\* C11: once the worker pool is done, the merged batch holds, for every site
\* whose adapter call returned a frame, exactly the rows of that frame, and
\* no row of a site whose call raised or found no parser class: a failing
\* adapter contributes nothing and takes nothing away from the others.
C11_AdapterFailureIsolated ==
    pc \in {"combined", "exit_no_data"} =>
        \A s \in SiteNames :
            RowsOf(IF pc = "combined" THEN raw_combined_df ELSE <<>>, s) =
                IF adapter[s] = "ok" THEN RowsOf(feed, s) ELSE <<>>

\* C11 witness: the pool is done, one adapter call raised although its site
\* had articles, and the merged batch holds the articles of the other site.
C11_Witness ==
    /\ pc = "combined"
    /\ \E s \in SiteNames : \E t \in SiteNames :
        /\ adapter[s] = "raises" /\ RowsOf(feed, s) # <<>>
        /\ adapter[t] = "ok" /\ RowsOf(raw_combined_df, t) # <<>>

\* C12: the merged batch is in configuration order of the sources, whatever
\* the order in which the adapter tasks completed.
C12_MergedInConfigurationOrder ==
    pc = "combined" =>
        \A i \in 1..Len(raw_combined_df) : \A j \in 1..Len(raw_combined_df) :
            i < j => SiteIndex(raw_combined_df[i].source) <=
                     SiteIndex(raw_combined_df[j].source)

\* C13: while main() is at the worker pool it can always take a step, also
\* when an adapter call never returns: the pool's join point is passed with
\* the articles of the other adapters.
C13_HangingAdapterDoesNotStall ==
    pc = "fetch" => ENABLED NextFetch

\* C14: main() never ends in an unhandled exception: it ends at the export or
\* at one of its logged early returns.
C14_NoUnhandledException ==
    pc # "crashed"

\* C15: in every state of the archive, after any sequence of
\* write_new_articles and clean_old_articles calls, no two rows share a url,
\* a row whose url was stored before the last call is the row that was
\* stored, unchanged, and only a retention call removes rows.
C15_ArchiveLifecycle ==
    /\ \A r1 \in archive : \A r2 \in archive : r1.url = r2.url => r1 = r2
    /\ db_call.op # "none" =>
        \A r \in archive : r.url \in StoredUrls(db_call.before) => r \in db_call.before
    /\ db_call.op = "write" => db_call.before \subseteq archive
    /\ db_call.op = "retention" => archive \subseteq db_call.before

\* C15 witness: a write, on a later day, of a batch holding a stored url and
\* a new one has left the stored row as it was.
C15_Witness ==
    /\ db_call.op = "write" /\ ~db_call.raised
    /\ \E i \in 1..Len(db_call.batch) : \E r \in archive :
        /\ r.url = db_call.batch[i].url
        /\ r.insert_timestamp < db_call.today
        /\ r.title # db_call.batch[i].title
    /\ \E i \in 1..Len(db_call.batch) :
        db_call.batch[i].url \notin StoredUrls(db_call.before)

\* C16: after the title deduplication no two rows of the batch share a
\* title, the row kept for a title is the first row of that title in the
\* merged order, and the kept rows keep their order; a row whose title
\* occurs once is kept.
C16_TitleDedupKeepsFirst ==
    pc = "deduped" =>
        LET before == filtered_articles
            after == today_new_articles_df
            First(t) == CHOOSE i \in 1..Len(before) :
                /\ before[i].title = t
                /\ \A j \in 1..Len(before) : before[j].title = t => i <= j
        IN /\ \A i \in 1..Len(after) : \A j \in 1..Len(after) :
                after[i].title = after[j].title => i = j
           /\ {after[i].title : i \in 1..Len(after)} =
              {before[i].title : i \in 1..Len(before)}
           /\ \A i \in 1..Len(after) : after[i] = before[First(after[i].title)]
           /\ \A i \in 1..Len(after) : \A j \in 1..Len(after) :
                i < j => First(after[i].title) < First(after[j].title)

\* C16 witness: two same-day rows of one title from different sites, the
\* second one dropped.
C16_Witness ==
    /\ pc = "deduped"
    /\ Len(filtered_articles) = 2 /\ Len(today_new_articles_df) = 1
    /\ filtered_articles[1].url # filtered_articles[2].url
    /\ today_new_articles_df[1] = filtered_articles[1]

\* C17: the date filter keeps exactly the new rows whose publish_time parses
\* to the run's local date, in order; a row whose publish_time is missing,
\* not a string or unparseable is dropped, and the run does not end there
\* with an exception.
C17_SameDayFilterDropsBadTimes ==
    pc \notin {"new"} =>
        /\ pc # "crashed"
        /\ filtered_articles =
            SelectSeq(new_articles_df,
                      LAMBDA r : r.publish_time \notin OddPubTimes
                                 /\ LocalDate(r.publish_time) = now)

\* C18: when the answer of the Scoring Service parses, the scored batch has
\* the rows of the batch in the same order; a row whose title the answer
\* omits has importance_score 0 and category unknown, a row whose title the
\* answer holds has the score and category returned for it, and titles of
\* the answer that are not in the batch change nothing.
C18_PartialResponseMappedByTitle ==
    pc = "classified" =>
        \A response \in ServiceAnswers(service) :
            (service.kind = "fixed" /\ ~response.raises) =>
                LET result_map == response.result_map IN
                /\ Len(classified_df) = Len(today_new_articles_df)
                /\ \A i \in 1..Len(classified_df) :
                    LET row == classified_df[i]
                        a == today_new_articles_df[i]
                    IN /\ row.url = a.url /\ row.title = a.title
                       /\ row.source = a.source /\ row.publish_time = a.publish_time
                       /\ IF a.title \in DOMAIN result_map
                          THEN /\ row.importance_score = result_map[a.title].score
                               /\ row.category = result_map[a.title].category
                          ELSE /\ row.importance_score = 0
                               /\ row.category = Unknown

\* C18 witness: an answer that holds one title of the batch, omits the other
\* and holds a title that is not in the batch.
C18_Witness ==
    /\ pc = "classified"
    /\ \E response \in ServiceAnswers(service) :
        /\ service.kind = "fixed" /\ ~response.raises
        /\ "t3" \in DOMAIN response.result_map
        /\ \E i \in 1..Len(classified_df) : \E j \in 1..Len(classified_df) :
            /\ classified_df[i].title \in DOMAIN response.result_map
            /\ classified_df[i].category # Unknown
            /\ classified_df[j].title \notin DOMAIN response.result_map
            /\ classified_df[j].category = Unknown

\* C19: after the scoring step, and after the frequency bonus, the
\* importance_score of every row is a finite number, whatever the answer of
\* the Scoring Service.
C19_ScoreAlwaysFinite ==
    pc \in {"classified", "checked", "exit_ai_failed", "bonused", "crashed"} =>
        \A i \in 1..Len(classified_df) :
            classified_df[i].importance_score \in 0..(MaxScore + 2)

\* Whether accepted, a set of positions of ranked, obeys the rule of the
\* walk: a position is accepted if and only if fewer than T positions before
\* it are accepted and its category has no quota or fewer than Q[category]
\* accepted positions of its category come before it.
ObeysAcceptRule(ranked, accepted, Q, T) ==
    \A i \in 1..Len(ranked) :
        i \in accepted <=>
            /\ Cardinality({j \in accepted : j < i}) < T
            /\ \/ ranked[i].category \notin DOMAIN Q
               \/ Cardinality({j \in accepted :
                        j < i /\ ranked[j].category = ranked[i].category})
                    < Q[ranked[i].category]

\* C20: the quota selection is, for some descending-score order of the
\* candidates, exactly the rows at the positions the accept rule accepts, in
\* that order: a rejected candidate frees no budget for others.
C20_QuotaWalkAcceptRule ==
    pc = "selected" =>
        \E ranked \in RankedOrders(candidate_df) :
            \E accepted \in SUBSET (1..Len(ranked)) :
                /\ ObeysAcceptRule(ranked, accepted, config.category_quotas,
                                   config.selection_total_limit)
                /\ quota_selection =
                    MaskSeq(ranked, [i \in 1..Len(ranked) |-> i \in accepted])

\* C20 witness: Q = {tech: 2}, T = 3 and five tech candidates scored 9, 8, 7,
\* 6 and 5: exactly the 9 and the 8 are selected.
C20_Witness ==
    /\ pc = "selected"
    /\ config.category_quotas = [tech |-> 2]
    /\ config.selection_total_limit = 3
    /\ candidate_df = FiveTechCandidates
    /\ Len(quota_selection) = 2
    /\ quota_selection[1].importance_score = 9
    /\ quota_selection[2].importance_score = 8

\* C21: two candidates of equal importance_score appear in the quota
\* selection in the relative order they had in the scored batch: the
\* selection is the walk over the stable descending sort of the candidates.
C21_StableRanking ==
    pc = "selected" =>
        \E ranked \in RankedOrders(candidate_df) :
            /\ \E p \in IndexOrders(Len(candidate_df)) :
                /\ ranked = [i \in 1..Len(candidate_df) |-> candidate_df[p[i]]]
                /\ \A i \in 1..Len(candidate_df) : \A j \in 1..Len(candidate_df) :
                    (i < j /\ candidate_df[p[i]].importance_score =
                              candidate_df[p[j]].importance_score) => p[i] < p[j]
            /\ quota_selection =
                QuotaSelection(ranked, config.category_quotas, config.selection_total_limit)

\* C26: when the batch append fails the run goes on: the table is what it was
\* before the call, the retention block and the export still run, and the
\* exported list is the final list computed before the append.
C26_AppendFailureNotFatal ==
    Occurs("append_error") =>
        /\ pc \in {"written", "pruned", "done"}
        /\ pc = "written" =>
            db_call.op = "write" /\ archive = db_call.before /\ ENABLED Prune
        /\ pc = "pruned" => archive \subseteq db_call.before /\ ENABLED Export
        /\ pc = "done" =>
            /\ report = final_list_df
            /\ Before("append_error", "export")

\* C26 witness: a run whose append failed has exported a non-empty final
\* list, and a url of the batch is not in the archive.
C26_Witness ==
    /\ pc = "done" /\ Occurs("append_error") /\ report # <<>>
    /\ \E i \in 1..Len(today_new_articles_df) :
        today_new_articles_df[i].url \notin StoredUrls(archive)

\* C28: rows are added to the archive only by the step that leaves the
\* final-list stage, never on the way to an early exit, and the rows added
\* are one row for every article of the same-day title-deduplicated batch.
C28_AppendOnlyPastFinalList ==
    [][~(archive' \subseteq archive) =>
        /\ pc = "hydrated" /\ pc' = "written"
        /\ archive' = archive \cup
            {ArchiveRow(today_new_articles_df[i], now) :
                i \in 1..Len(today_new_articles_df)}]_vars

\* C28 witness: the append has stored an article that is not in the final
\* list.
C28_Witness ==
    /\ pc = "written" /\ db_call.op = "write" /\ ~Occurs("append_error")
    /\ \E i \in 1..Len(today_new_articles_df) :
        /\ ArchiveRow(today_new_articles_df[i], now) \in archive
        /\ today_new_articles_df[i].url \notin ColumnUrls(final_list_df)

\* C29: existing_urls is the stored urls as they were at the start of the
\* run, or the empty set when the read failed; with the empty set every
\* fetched article is new; the append of the run does not change it.
C29_ExistingUrlsReadOnce ==
    /\ pc \in {"fetch", "combined", "new", "today", "deduped", "classified",
               "bonused", "partitioned", "selected", "final", "hydrated"} =>
        existing_urls \in {{}, StoredUrls(archive)}
    /\ (pc \in {"new", "exit_no_new"} /\ existing_urls = {}) =>
        new_articles_df = raw_combined_df
    /\ (pc = "written" /\ db_call.op = "write") =>
        existing_urls \in {{}, StoredUrls(db_call.before)}

\* C29 witness: in a second run the read failed and an article whose url is
\* stored is in the batch of new articles.
C29_Witness ==
    /\ run = "second" /\ pc = "new" /\ existing_urls = {}
    /\ \E i \in 1..Len(new_articles_df) :
        new_articles_df[i].url \in StoredUrls(archive)

\* What C23 and C30 take a rule to say of one row: a keyword rule holds when
\* the title contains one of the values as a string, ignoring case.
HasSubstring(title, value) == IsSubstring(Lower(value), Lower(title))
Recognised == {"source", "category", "keyword"}
StatedCondition(row, key, value) ==
    CASE key = "source" -> row.source = value
      [] key = "category" -> row.category = value
      [] key = "keyword" -> HasSubstring(row.title, value)
      [] OTHER -> TRUE
StatedRule(row, rule) ==
    LET rule_type == Get(rule, "type") IN
    CASE rule_type = "keyword" /\ "values" \in DOMAIN rule ->
            \E k \in 1..Len(rule["values"]) : HasSubstring(row.title, rule["values"][k])
      [] rule_type = "source" /\ "values" \in DOMAIN rule ->
            row.source \in Range(rule["values"])
      [] rule_type = "category" /\ "values" \in DOMAIN rule ->
            row.category \in Range(rule["values"])
      [] rule_type = "composite" /\ "conditions" \in DOMAIN rule ->
            \A key \in DOMAIN rule["conditions"] :
                StatedCondition(row, key, rule["conditions"][key])
      [] OTHER -> FALSE
StatedMask(df, rules) ==
    [i \in 1..Len(df) |-> \E r \in 1..Len(rules) : StatedRule(df[i], rules[r])]

\* C23: forced_df is the rows of the batch that satisfy at least one rule,
\* candidate_df the other rows, both in batch order; a keyword rule is
\* satisfied when the title contains one of its values, ignoring case.
C23_PartitionByRules ==
    pc = "partitioned" =>
        LET stated == StatedMask(classified_df, config.force_keep_rules) IN
        /\ forced_df = MaskSeq(classified_df, stated)
        /\ candidate_df =
            MaskSeq(classified_df, [i \in 1..Len(classified_df) |-> ~stated[i]])

\* A rule none of whose recognised conditions can match: unknown type, no
\* values or conditions key, an empty value list, no recognised condition.
VoidRule(rule) ==
    LET rule_type == Get(rule, "type") IN
    \/ rule_type \notin {"keyword", "source", "category", "composite"}
    \/ rule_type \in {"keyword", "source", "category"} /\ "values" \notin DOMAIN rule
    \/ rule_type = "keyword" /\ "values" \in DOMAIN rule /\ rule["values"] = <<>>
    \/ rule_type = "composite" /\ "conditions" \notin DOMAIN rule
    \/ rule_type = "composite" /\ "conditions" \in DOMAIN rule
        /\ DOMAIN rule["conditions"] \cap Recognised = {}

\* C30: a rule list made of rules without a recognised condition that can
\* match forces no article.
C30_VoidRulesForceNothing ==
    (pc = "partitioned"
        /\ \A r \in 1..Len(config.force_keep_rules) : VoidRule(config.force_keep_rules[r]))
    => forced_df = <<>>

\* A candidate of category c was passed over only when T candidates were
\* accepted or Q[c] candidates of c were: forced rows are in no count.
CountsOnlyCandidates ==
    LET Q == config.category_quotas
        T == config.selection_total_limit
    IN \A c \in Categories \cup {Unknown} :
        RowCount(quota_selection, c) < RowCount(candidate_df, c) =>
            \/ Len(quota_selection) >= T
            \/ c \in DOMAIN Q /\ RowCount(quota_selection, c) >= Q[c]

\* C27 as stated: forced articles are in no counter, and the final list
\* holds at most (number of forced articles + T) rows.
C27_ForcedConsumeNothingAsStated ==
    pc \in {"selected", "final"} =>
        /\ CountsOnlyCandidates
        /\ pc = "final" =>
            Len(final_list_df) <= Len(forced_df) + config.selection_total_limit

\* C27 amended: a negative T counts as zero: the final list holds at most
\* (number of forced articles + max(T, 0)) rows, and a candidate is passed
\* over only on account of accepted candidates.
C27_ForcedConsumeNothing ==
    pc \in {"selected", "final"} =>
        /\ CountsOnlyCandidates
        /\ pc = "final" =>
            Len(final_list_df) <= Len(forced_df) + Max(config.selection_total_limit, 0)

\* C27 witness: with a forced article of the quota's category in the list,
\* the candidates still fill T and the category quota, and the final list
\* is longer than T.
C27_Witness ==
    /\ pc = "final" /\ forced_df # <<>>
    /\ config.selection_total_limit > 0
    /\ Len(quota_selection) = config.selection_total_limit
    /\ Len(final_list_df) > config.selection_total_limit
    /\ \E c \in DOMAIN config.category_quotas :
        /\ RowCount(forced_df, c) > 0
        /\ RowCount(quota_selection, c) = config.category_quotas[c]
        /\ config.category_quotas[c] > 0

\* Two rows with the same (url, title) pair.
SamePair(a, b) == a.url = b.url /\ a.title = b.title

\* C22: the final list is the rows of forced_df followed by quota_selection
\* whose (url, title) pair no earlier row has, in that order: no two of its
\* rows share a pair, and the row kept for the pair of a forced row is a
\* forced row.
C22_FinalListMerge ==
    pc = "final" =>
        LET both == forced_df \o quota_selection
            firsts == {i \in 1..Len(both) : \A j \in 1..(i - 1) : ~SamePair(both[j], both[i])}
            nth(k) == CHOOSE i \in firsts : Cardinality({j \in firsts : j < i}) = k - 1
        IN /\ Len(final_list_df) = Cardinality(firsts)
           /\ \A k \in 1..Len(final_list_df) : final_list_df[k] = both[nth(k)]
           /\ \A k \in 1..Len(final_list_df) : \A l \in 1..Len(final_list_df) :
                SamePair(final_list_df[k], final_list_df[l]) => k = l
           /\ \A i \in 1..Len(forced_df) : \E k \in 1..Len(final_list_df) :
                /\ SamePair(final_list_df[k], forced_df[i])
                /\ final_list_df[k] \in Range(forced_df)

\* C22 witness: a candidate with the (url, title) pair of a forced row was
\* removed, and a candidate with another pair follows the forced rows.
C22_Witness ==
    /\ pc = "final" /\ forced_df # <<>>
    /\ \E j \in 1..Len(quota_selection) :
        /\ \E i \in 1..Len(forced_df) : SamePair(forced_df[i], quota_selection[j])
        /\ quota_selection[j] \notin Range(final_list_df)
    /\ \E j \in 1..Len(quota_selection) :
        final_list_df[Len(final_list_df)] = quota_selection[j]

\* C24: each article of the final list with a non-empty description has
\* that description as full_content, and each article whose description is
\* empty or absent has the fetched text of its url or the fallback string.
C24_HydrationPerArticle ==
    pc = "hydrated" =>
        \A i \in 1..Len(final_list_df) :
            IF "description" \in DOMAIN final_list_df[i] /\ final_list_df[i].description # ""
            THEN full_content[i] = final_list_df[i].description
            ELSE full_content[i] \in FetchOutcomes

\* The calls made for row i.
CallsFor(i) == {k \in 1..Len(summarize_calls) : summarize_calls[k].row = i}

\* What C25 says of row i: no call and the content itself below the
\* threshold, else one call and its output, or the truncated content when
\* the call failed.
PerArticleSummary(i) ==
    IF TextLen(full_content[i]) < MinSummaryLen
    THEN CallsFor(i) = {} /\ summarized_content[i] = full_content[i]
    ELSE /\ Cardinality(CallsFor(i)) = 1
         /\ \A k \in CallsFor(i) :
            summarized_content[i] =
                IF summarize_calls[k].outcome = "ok" THEN Summary
                ELSE Truncate(full_content[i])

\* C25 as stated: summarized_content is aligned with the final list and
\* every row follows the per-article rule.
C25_SummaryPerArticleAsStated ==
    pc = "done" =>
        /\ Len(summarized_content) = Len(final_list_df)
        /\ \A i \in 1..Len(final_list_df) : PerArticleSummary(i)

\* C25 amended: summarized_content is aligned with the final list, and
\* either no call was made and every row has its truncated content (the
\* model could not be configured), or every row follows the per-article
\* rule.
C25_SummaryPerArticle ==
    pc = "done" =>
        /\ Len(summarized_content) = Len(final_list_df)
        /\ \/ /\ summarize_calls = <<>>
              /\ \A i \in 1..Len(final_list_df) :
                    summarized_content[i] = Truncate(full_content[i])
           \/ \A i \in 1..Len(final_list_df) : PerArticleSummary(i)

\* C25 witness: of two long articles one has the output of its call and the
\* other, whose call failed, its truncated content.
C25_Witness ==
    /\ pc = "done" /\ Len(summarize_calls) = 2
    /\ \E i \in 1..Len(final_list_df) : \E j \in 1..Len(final_list_df) :
        /\ i < j
        /\ summarized_content[i] = TruncatedText
        /\ summarized_content[j] = Summary

====
